---- MODULE Spec2Model ----
(***************************************************************************)
(* A model of zfavalive.py: the batch packer (generate_batches), the       *)
(* bounded-concurrency dispatch loop of main, the per-batch fetch          *)
(* (process_batch), the tile slicing and cache-or-compute loop             *)
(* (_process_image_data), the aggregation (_update_results), the report    *)
(* (format_results) and the end of a run, a user interrupt included.       *)
(*                                                                         *)
(* Strings are TLA+ strings: len(s) is Len(s), s[a:b] is SubSeq, + is \o.  *)
(* Python's None is the string None below; a dict is a function whose      *)
(* DOMAIN is its key set; results, whose insertion order Python keeps, is  *)
(* a sequence of groups in insertion order.                                *)
(***************************************************************************)
EXTENDS Integers, Sequences, FiniteSets, TLC

(***************************************************************************)
(* Program constants (zfavalive.py:17-21).                                 *)
(***************************************************************************)
DEFAULT_BATCH_SIZE == 20
DEFAULT_THREADS == 10
MAX_URL_LENGTH == 2200
BASE_URL == "https://favicon.yandex.net/favicon/"
CACHE_TTL_HOURS == 24
DEFAULT_OUTPUT_FORMAT == "table"
OutputFormats == {"table", "json", "csv"}

(***************************************************************************)
(* Bounds of the model.                                                    *)
(***************************************************************************)
MaxLines == 3        \* lines of the wordlist given to the packer alone
MaxBatch == 3        \* largest --batch value
MaxRunBatches == 2   \* batches (and wordlist lines) of a whole run
MaxThreads == 2      \* largest --threads value
MaxHeight == 4       \* largest composite image height, in pixel rows
MaxTileDomains == 3  \* largest batch given to _process_image_data alone
MaxTicks == 2        \* steps the clock takes during a run
MaxGroups == 3       \* groups of the results given to format_results alone
MaxGroupDomains == 4 \* domains of a group given to format_results alone

None == "None"

RECURSIVE Rep(_, _)
Rep(s, n) ==
    IF n = 0 THEN ""
    ELSE IF n % 2 = 0 THEN LET half == Rep(s, n \div 2) IN half \o half
    ELSE s \o Rep(s, n - 1)

(***************************************************************************)
(* The domains of the wordlists.  Two ordinary names, an empty line and a  *)
(* name without a known TLD (both refused by the validator), two names of  *)
(* 1082 characters (two of them render to a URL of exactly 2200) and one   *)
(* of 2166 characters (alone it renders to a URL of 2201).                 *)
(***************************************************************************)
LongA == Rep("a", 1078) \o ".com"
LongB == Rep("b", 1078) \o ".com"
Huge == Rep("c", 2162) \o ".com"
PackDomains == {"a.com", "b.com", "", "localhost", LongA, LongB, Huge}
RunDomains == {"a.com", "b.com", "localhost"}

EndsWith(s, suffix) ==
    /\ Len(s) >= Len(suffix)
    /\ SubSeq(s, Len(s) - Len(suffix) + 1, Len(s)) = suffix

(***************************************************************************)
(* tld.get_tld(domain, fix_protocol=True): the top-level domain of the     *)
(* name, or an exception (TldDomainNotFound, TldBadUrl) when it has none.  *)
(***************************************************************************)
get_tld(domain) ==
    IF EndsWith(domain, ".com") /\ Len(domain) > Len(".com")
    THEN [raised |-> FALSE, value |-> "com"]
    ELSE [raised |-> TRUE, value |-> None]

is_valid_domain(domain) ==
    LET r == get_tld(domain)
    IN  IF r.raised THEN FALSE ELSE r.value \notin {None, ""}

RECURSIVE Filter(_, _)
Filter(domains, i) ==
    IF i > Len(domains) THEN <<>>
    ELSE (IF is_valid_domain(domains[i]) THEN <<domains[i]>> ELSE <<>>)
         \o Filter(domains, i + 1)

(***************************************************************************)
(* One iteration of the loop of generate_batches (lines 64-74) on the      *)
(* loop state [batches, current_batch, current_length].                    *)
(***************************************************************************)
PackStep_DropOnClose(st, domain, batch_size) ==
    LET domain_len == Len(domain)
        needed_length == st.current_length + domain_len
                         + (IF st.current_batch # <<>> THEN 1 ELSE 0)
        close == needed_length > MAX_URL_LENGTH
                 \/ Len(st.current_batch) >= batch_size
    IN  IF close
        THEN [batches |-> Append(st.batches, st.current_batch),
              current_batch |-> <<>>,
              current_length |-> Len(BASE_URL)]
        ELSE [batches |-> st.batches,
              current_batch |-> Append(st.current_batch, domain),
              current_length |-> st.current_length + domain_len + 1]

PackStep(st, domain, batch_size) ==
    LET domain_len == Len(domain)
        needed_length == st.current_length + domain_len
                         + (IF st.current_batch # <<>> THEN 1 ELSE 0)
        close == needed_length > MAX_URL_LENGTH
                 \/ Len(st.current_batch) >= batch_size
        closed == IF close
                  THEN [batches |-> Append(st.batches, st.current_batch),
                        current_batch |-> <<>>,
                        current_length |-> Len(BASE_URL)]
                  ELSE st
        appended == Append(closed.current_batch, domain)
    IN  [batches |-> closed.batches,
         current_batch |-> appended,
         current_length |-> closed.current_length + domain_len
                            + (IF appended # <<>> THEN 1 ELSE 0)]

RECURSIVE PackLoop(_, _, _, _)
PackLoop(valid_domains, i, st, batch_size) ==
    IF i > Len(valid_domains) THEN st
    ELSE PackLoop(valid_domains, i + 1,
                  PackStep(st, valid_domains[i], batch_size), batch_size)

generate_batches(domains, batch_size) ==
    LET valid_domains == Filter(domains, 1)
        st == PackLoop(valid_domains, 1,
                       [batches |-> <<>>, current_batch |-> <<>>,
                        current_length |-> Len(BASE_URL)],
                       batch_size)
    IN  IF st.current_batch # <<>>
        THEN Append(st.batches, st.current_batch)
        ELSE st.batches

(***************************************************************************)
(* '/'.join(batch) and the request URL of process_batch (line 83).         *)
(***************************************************************************)
RECURSIVE Join(_, _)
Join(batch, i) ==
    IF i > Len(batch) THEN ""
    ELSE IF i = Len(batch) THEN batch[i]
    ELSE batch[i] \o "/" \o Join(batch, i + 1)

RequestUrl(batch) == BASE_URL \o Join(batch, 1)

RECURSIVE Concat(_, _)
Concat(bs, i) ==
    IF i > Len(bs) THEN <<>> ELSE bs[i] \o Concat(bs, i + 1)

(***************************************************************************)
(* args.url.split('/') (line 216).                                         *)
(***************************************************************************)
RECURSIVE Split(_, _, _)
Split(s, i, part) ==
    IF i > Len(s) THEN <<part>>
    ELSE IF SubSeq(s, i, i) = "/" THEN <<part>> \o Split(s, i + 1, "")
    ELSE Split(s, i + 1, part \o SubSeq(s, i, i))

(***************************************************************************)
(* The composite image: a sequence of pixel rows, each row one pixel wide. *)
(* "W" is the opaque white pixel (255,255,255,255); "A" and "B" are two    *)
(* other pixels.  A response body is an image or bytes no codec decodes.   *)
(* Images is every image of up to MaxHeight rows.  In a run the provider   *)
(* answers a batch with the documented layout, one tile per requested      *)
(* domain and here one row per tile (Layout), or with garbage.             *)
(***************************************************************************)
Pixels == {"W", "A", "B"}
Images == UNION {[1..h -> Pixels] : h \in 1..MaxHeight}
Garbage == <<"garbage">>
Layout(batch) == [1..Len(batch) -> Pixels]
Bodies(batch) == Layout(batch) \cup {Garbage}
Range(seq) == {seq[k] : k \in 1..Len(seq)}

\* What the provider holds: a pixel for each domain it has one fixed icon
\* of.  For such a domain it serves that pixel in every composite; for any
\* other domain it serves any pixel.
AnyIcon == <<>>
Served(held, batch) ==
    {body \in Layout(batch) :
        \A k \in 1..Len(batch) :
            batch[k] \in DOMAIN held => body[k] = held[batch[k]]}
    \cup {Garbage}

\* img.crop((0, y1, w, y2)): the rows y1 .. y2-1, counted from 0.
crop(img, y1, y2) == SubSeq(img, y1 + 1, y2)

\* tile.tobytes(): the rows one after the other.
RECURSIVE tobytes(_, _)
tobytes(tile, i) ==
    IF i > Len(tile) THEN "" ELSE tile[i] \o tobytes(tile, i + 1)

\* hashlib.sha256(bytes).hexdigest()[:8]: distinct bytes give distinct
\* digests; the tile of bytes DefaultIcon is the provider's default icon,
\* whose digest starts with 5f70bf18.
DefaultIcon == "AA"
hexdigest8(bytes) == IF bytes = DefaultIcon THEN "5f70bf18" ELSE "sha:" \o bytes

_is_white_square(image) == \A i \in 1..Len(image) : image[i] = "W"

\* _process_tile without the comparison with the provider's default icon.
_process_tile_NoDefaultCheck(tile, show_white_hashes) ==
    IF _is_white_square(tile)
    THEN (IF show_white_hashes THEN "NULL" ELSE None)
    ELSE hexdigest8(tobytes(tile, 1))

_process_tile(tile, show_white_hashes) ==
    IF _is_white_square(tile)
    THEN (IF show_white_hashes THEN "NULL" ELSE None)
    ELSE LET original_hash == hexdigest8(tobytes(tile, 1))
         IN  IF original_hash = "5f70bf18"
             THEN (IF show_white_hashes THEN "NULL" ELSE None)
             ELSE original_hash

\* Python's truth value of a hash: None and the empty string are false.
Truthy(display_hash) == display_hash \notin {None, ""}

(***************************************************************************)
(* The aggregation state: results is the dict hash -> {count, domains} in  *)
(* insertion order, seen_entries the set of (domain, hash) pairs.          *)
(***************************************************************************)
HasKey(res, h) == \E g \in 1..Len(res) : res[g].hash = h
KeyIndex(res, h) == CHOOSE g \in 1..Len(res) : res[g].hash = h

_update_results_NoSeenCheck(res, seen, domain, display_hash) ==
    IF ~Truthy(display_hash)
    THEN [results |-> res, seen_entries |-> seen]
    ELSE LET withKey == IF HasKey(res, display_hash) THEN res
                        ELSE Append(res, [hash |-> display_hash, count |-> 0,
                                          domains |-> <<>>])
             g == KeyIndex(withKey, display_hash)
         IN  [results |-> [withKey EXCEPT
                              ![g].count = @ + 1,
                              ![g].domains = Append(@, domain)],
              seen_entries |-> seen \cup {<<domain, display_hash>>}]

_update_results(res, seen, domain, display_hash) ==
    IF ~Truthy(display_hash) \/ <<domain, display_hash>> \in seen
    THEN [results |-> res, seen_entries |-> seen]
    ELSE LET withKey == IF HasKey(res, display_hash) THEN res
                        ELSE Append(res, [hash |-> display_hash, count |-> 0,
                                          domains |-> <<>>])
             g == KeyIndex(withKey, display_hash)
         IN  [results |-> [withKey EXCEPT
                              ![g].count = @ + 1,
                              ![g].domains = Append(@, domain)],
              seen_entries |-> seen \cup {<<domain, display_hash>>}]

(***************************************************************************)
(* format_results (lines 161-190).  sorted(..., reverse=True) is stable:   *)
(* it orders the groups by falling count and leaves groups of equal count  *)
(* in the order of the dict, which InsertByCount does one group at a time. *)
(* The rendering is a list of rows [hash, count, domains, more]: every     *)
(* domain for json, the first 3 for csv and the first 2 for the table,     *)
(* with the number of domains left out in more.                            *)
(***************************************************************************)
InsertByCount_BeforeTies(sorted, item) ==
    LET p == Cardinality({i \in 1..Len(sorted) : sorted[i].count > item.count})
    IN  SubSeq(sorted, 1, p) \o <<item>> \o SubSeq(sorted, p + 1, Len(sorted))

InsertByCount(sorted, item) ==
    LET p == Cardinality({i \in 1..Len(sorted) : sorted[i].count >= item.count})
    IN  SubSeq(sorted, 1, p) \o <<item>> \o SubSeq(sorted, p + 1, Len(sorted))

RECURSIVE SortedByCount(_, _, _)
SortedByCount(items, i, sorted) ==
    IF i > Len(items) THEN sorted
    ELSE SortedByCount(items, i + 1, InsertByCount(sorted, items[i]))

Shown(output_format) ==
    IF output_format = "csv" THEN 3
    ELSE IF output_format = "json" THEN -1
    ELSE 2

RenderRow(data, output_format) ==
    LET n == Len(data.domains)
        shown == Shown(output_format)
        cut == shown >= 0 /\ n > shown
    IN  [hash |-> data.hash, count |-> data.count,
         domains |-> IF cut THEN SubSeq(data.domains, 1, shown)
                     ELSE data.domains,
         more |-> IF cut THEN n - shown ELSE 0]

format_results(res, output_format) ==
    LET sorted_results == SortedByCount(res, 1, <<>>)
    IN  [format |-> output_format,
         rows |-> [g \in 1..Len(sorted_results) |->
                     RenderRow(sorted_results[g], output_format)]]

NoReport == [format |-> None, rows |-> <<>>]

(***************************************************************************)
(* The cache: the dict domain -> {hash, expires}; expires in hours.        *)
(***************************************************************************)
_is_cache_valid_Inclusive(entry, t) == t <= entry.expires

_is_cache_valid(entry, t) == t < entry.expires

NoEntry == [hash |-> None, expires |-> -1]
\* A lookup that never finds the entry.
cache_get_Misses(c, domain) == NoEntry

cache_get(c, domain) == IF domain \in DOMAIN c THEN c[domain] ELSE NoEntry

cache_set_DropsOthers(c, domain, entry) == [d \in {domain} |-> entry]

cache_set(c, domain, entry) ==
    [d \in DOMAIN c \cup {domain} |-> IF d = domain THEN entry ELSE c[d]]

\* The band of the tile of index idx (lines 107-108).
Band_ShiftedByOne(idx, tile_height, h) ==
    LET y1 == (idx + 1) * tile_height
        y2 == IF y1 + tile_height <= h THEN y1 + tile_height ELSE h
    IN  [y1 |-> y1, y2 |-> y2]

Band(idx, tile_height, h) ==
    LET y1 == idx * tile_height
        y2 == IF y1 + tile_height <= h THEN y1 + tile_height ELSE h
    IN  [y1 |-> y1, y2 |-> y2]

(***************************************************************************)
(* One iteration of the loop of _process_image_data (lines 100-118) on     *)
(* st = [cache, results, seen_entries, tileCalls, evals].  tileCalls       *)
(* counts the calls of _process_tile per domain and evals records, for     *)
(* each iteration, what it found and what it did.                          *)
(***************************************************************************)
Count(f, d) == IF d \in DOMAIN f THEN f[d] ELSE 0

EvalDomain(st, img, tile_height, idx, domains, show_white_hashes, t) ==
    LET h == Len(img)
        domain == domains[idx + 1]
        present == domain \in DOMAIN st.cache
        cached == cache_get(st.cache, domain)
        hit == present /\ _is_cache_valid(cached, t)
        band == Band(idx, tile_height, h)
        tile == crop(img, band.y1, band.y2)
        display_hash == IF hit THEN cached.hash
                        ELSE _process_tile(tile, show_white_hashes)
        cache1 == IF hit THEN st.cache
                  ELSE cache_set(st.cache, domain,
                                 [hash |-> display_hash,
                                  expires |-> t + CACHE_TTL_HOURS])
        upd == IF Truthy(display_hash)
               THEN _update_results(st.results, st.seen_entries, domain,
                                    display_hash)
               ELSE [results |-> st.results, seen_entries |-> st.seen_entries]
    IN  [cache |-> cache1,
         results |-> upd.results,
         seen_entries |-> upd.seen_entries,
         tileCalls |-> IF hit THEN st.tileCalls
                       ELSE [d \in DOMAIN st.tileCalls \cup {domain} |->
                               Count(st.tileCalls, d)
                               + (IF d = domain THEN 1 ELSE 0)],
         evals |-> Append(st.evals,
                     [domain |-> domain, idx |-> idx, now |-> t,
                      present |-> present, before |-> cached,
                      after |-> cache_get(cache1, domain),
                      computed |-> ~hit,
                      tile |-> IF hit THEN <<>> ELSE tile,
                      y1 |-> IF hit THEN -1 ELSE band.y1,
                      y2 |-> IF hit THEN -1 ELSE band.y2,
                      h |-> h, n |-> Len(domains),
                      hash |-> display_hash])]

RECURSIVE ImageLoop(_, _, _, _, _, _, _)
ImageLoop(st, img, tile_height, idx, domains, show_white_hashes, t) ==
    IF idx >= Len(domains) THEN st
    ELSE ImageLoop(EvalDomain(st, img, tile_height, idx, domains,
                              show_white_hashes, t),
                   img, tile_height, idx + 1, domains, show_white_hashes, t)

(***************************************************************************)
(* _process_image_data (lines 93-118): [raised, st].  Image.open raises on *)
(* bytes that are no image and h // len(domains) raises on an empty batch, *)
(* both before the loop.                                                   *)
(***************************************************************************)
_process_image_data_CachesOnFailure(st, body, domains, show_white_hashes, t) ==
    IF Len(domains) = 0 THEN [raised |-> "zero_division", st |-> st]
    ELSE IF body = Garbage
    THEN [raised |-> "decode_error",
          st |-> [st EXCEPT !.cache =
                     cache_set(st.cache, domains[1],
                               [hash |-> None,
                                expires |-> t + CACHE_TTL_HOURS])]]
    ELSE [raised |-> "ok",
          st |-> ImageLoop(st, body, Len(body) \div Len(domains), 0, domains,
                           show_white_hashes, t)]

_process_image_data(st, body, domains, show_white_hashes, t) ==
    IF body = Garbage THEN [raised |-> "decode_error", st |-> st]
    ELSE IF Len(domains) = 0 THEN [raised |-> "zero_division", st |-> st]
    ELSE LET tile_height == Len(body) \div Len(domains)
         IN  [raised |-> "ok",
              st |-> ImageLoop(st, body, tile_height,
                               0, domains, show_white_hashes, t)]

(***************************************************************************)
(* The state of a run.                                                     *)
(*   pc           where main is: "start", "dispatch" (awaiting the tasks), *)
(*                "finally" (before _cleanup), "exit"; or "packed",        *)
(*                "processed", "reported" when one function alone was run  *)
(*   args         the parsed command line                                  *)
(*   exc          the exception main is unwinding with, or None            *)
(*   batches      the batches of the run                                   *)
(*   semaphore    the semaphore's value, or -1 before it exists            *)
(*   task         per batch: "waiting" for the semaphore, "get" (awaiting  *)
(*                session.get), "read" (awaiting response.read), "done"    *)
(*   session      "none", "open" or "closed"                               *)
(*   results, seen_entries, cache   the analyzer's fields                  *)
(*   now          the clock, in hours                                      *)
(*   report       what format_results returned, once main has printed it   *)
(*   icons        the provider: the fixed icon it holds for a domain        *)
(*   interrupt    the user's interrupt: "none", "pending" once SIGINT has  *)
(*                asked for main's cancellation, "raised" once main has    *)
(*                been woken with it                                       *)
(*   tileCalls    history: the calls of _process_tile so far, per domain   *)
(*   okDomains    history: the domains of the batches that                 *)
(*                _process_image_data has processed to the end             *)
(*   evals        history: the iterations of the loop of                   *)
(*                _process_image_data that the last step ran, if any       *)
(*   ended        history: the batch whose process_batch the last step     *)
(*                ended, how it ended and whether it printed an error      *)
(***************************************************************************)
VARIABLES pc, args, icons, interrupt, exc, batches, semaphore, task, session,
          results, seen_entries, cache, now, report,
          tileCalls, okDomains, evals, ended

vars == <<pc, args, icons, interrupt, exc, batches, semaphore, task, session,
          results, seen_entries, cache, now, report,
          tileCalls, okDomains, evals, ended>>

analyzer == <<results, seen_entries, cache>>
NoEnd == [batch |-> 0, how |-> "none", printed |-> FALSE]
Failures == {"transport_error", "bad_status", "decode_error", "zero_division"}
history == <<tileCalls, okDomains>>

SeqsUpTo(S, n) == UNION {[1..k -> S] : k \in 0..n}

UrlInputs == {"a.com", "a.com/b.com", "a.com/a.com", "a.com/"}
TickHours == CACHE_TTL_HOURS \div 2

Fresh ==
    /\ pc = "start"
    /\ exc = None
    /\ batches = <<>>
    /\ semaphore = -1
    /\ task = <<>>
    /\ session = "none"
    /\ results = <<>>
    /\ seen_entries = {}
    /\ cache = <<>>
    /\ now = 0
    /\ tileCalls = <<>>
    /\ okDomains = {}
    /\ evals = <<>>
    /\ ended = NoEnd
    /\ interrupt = "none"
    /\ report = NoReport

\* The command lines of a run.  --output-format keeps its default here;
\* format_results is applied in every format under ReportSpec.
RunArgs ==
    /\ \/ \E url \in UrlInputs, dw \in BOOLEAN :
             args = [mode |-> "url", url |-> url, wordlist |-> <<>>,
                     readable |-> TRUE, batch |-> DEFAULT_BATCH_SIZE,
                     threads |-> DEFAULT_THREADS,
                     output_format |-> DEFAULT_OUTPUT_FORMAT,
                     show_white_hashes |-> dw]
       \/ \E lines \in SeqsUpTo(RunDomains, MaxRunBatches),
             b \in 0..MaxRunBatches,
             t \in (-1)..MaxThreads,
             dw \in BOOLEAN :
             /\ Len(generate_batches(lines, b)) <= MaxRunBatches
             /\ args = [mode |-> "wordlist", url |-> None,
                        wordlist |-> lines, readable |-> TRUE,
                        batch |-> b, threads |-> t,
                        output_format |-> DEFAULT_OUTPUT_FORMAT,
                        show_white_hashes |-> dw]
       \/ \E dw \in BOOLEAN :
             args = [mode |-> "wordlist", url |-> None, wordlist |-> <<>>,
                     readable |-> FALSE, batch |-> DEFAULT_BATCH_SIZE,
                     threads |-> DEFAULT_THREADS,
                     output_format |-> DEFAULT_OUTPUT_FORMAT,
                     show_white_hashes |-> dw]

Init ==
    /\ Fresh
    /\ icons = AnyIcon
    /\ RunArgs

InFlight == {i \in 1..Len(task) : task[i] \in {"get", "read"}}
Ended(i) == task[i] = "done"

\* With --url main itself awaits the request and the body (line 216); with
\* --wordlist the tasks do and main awaits the tasks (lines 231-232).  A
\* cancelled main is woken with CancelledError, whatever it awaited.
MainAwaits == args.mode = "url"

\* _get_session (lines 39-43).
_get_session(s) == IF s = "none" THEN "open" ELSE s

(***************************************************************************)
(* main, --url (lines 214-216): the session is opened and process_batch    *)
(* runs on the split argument up to its first await, session.get.          *)
(***************************************************************************)
MainUrl ==
    /\ pc = "start"
    /\ args.mode = "url"
    /\ session' = _get_session(session)
    /\ batches' = <<Split(args.url, 1, "")>>
    /\ task' = <<"get">>
    /\ pc' = "dispatch"
    /\ evals' = <<>>
    /\ ended' = NoEnd
    /\ UNCHANGED <<args, icons, interrupt, report, exc, semaphore, analyzer,
                   now, history>>

(***************************************************************************)
(* main, --wordlist (lines 218-231): the file is read (open raises        *)
(* OSError on a file it cannot read), the batches are packed, the          *)
(* semaphore is made (asyncio.Semaphore raises ValueError on a negative    *)
(* value) and one task per batch is scheduled.                             *)
(***************************************************************************)
MainWordlist ==
    /\ pc = "start"
    /\ args.mode = "wordlist"
    /\ IF ~args.readable
       THEN /\ exc' = "OSError"
            /\ pc' = "finally"
            /\ UNCHANGED <<batches, semaphore, task>>
       ELSE /\ batches' = generate_batches(args.wordlist, args.batch)
            /\ IF args.threads < 0
               THEN /\ exc' = "ValueError"
                    /\ pc' = "finally"
                    /\ UNCHANGED <<semaphore, task>>
               ELSE /\ semaphore' = args.threads
                    /\ task' = [i \in 1..Len(batches') |-> "waiting"]
                    /\ pc' = "dispatch"
                    /\ exc' = exc
    /\ evals' = <<>>
    /\ ended' = NoEnd
    /\ UNCHANGED <<args, icons, interrupt, report, session, analyzer, now,
                   history>>

(***************************************************************************)
(* process_with_semaphore (lines 224-226) up to the first await of         *)
(* process_batch: the semaphore is taken, the session is made if there is  *)
(* none, and the GET is sent.                                              *)
(***************************************************************************)
SemaphoreFree_AtZero(value) == value >= 0

SemaphoreFree(value) == value > 0

Acquire(i) ==
    /\ pc = "dispatch"
    /\ args.mode = "wordlist"
    /\ task[i] = "waiting"
    /\ SemaphoreFree(semaphore)
    /\ semaphore' = semaphore - 1
    /\ session' = _get_session(session)
    /\ task' = [task EXCEPT ![i] = "get"]
    /\ evals' = <<>>
    /\ ended' = NoEnd
    /\ UNCHANGED <<pc, args, icons, interrupt, report, exc, batches,
                   analyzer, now, history>>

\* Leaving "async with semaphore": the value goes back up.
Release == IF args.mode = "wordlist" THEN semaphore + 1 ELSE semaphore

(***************************************************************************)
(* session.get ends (lines 86-87): a transport error, caught at line 90,   *)
(* or a response; a status other than 200 ends process_batch.              *)
(***************************************************************************)
GetEnds(i) ==
    /\ pc = "dispatch"
    /\ task[i] = "get"
    /\ MainAwaits => interrupt = "none"
    /\ \/ /\ task' = [task EXCEPT ![i] = "done"]
          /\ ended' = [batch |-> i, how |-> "transport_error",
                       printed |-> TRUE]
          /\ semaphore' = Release
       \/ \E status \in {200, 404} :
             IF status = 200
             THEN /\ task' = [task EXCEPT ![i] = "read"]
                  /\ ended' = NoEnd
                  /\ UNCHANGED semaphore
             ELSE /\ task' = [task EXCEPT ![i] = "done"]
                  /\ ended' = [batch |-> i, how |-> "bad_status",
                               printed |-> FALSE]
                  /\ semaphore' = Release
    /\ evals' = <<>>
    /\ UNCHANGED <<pc, args, icons, interrupt, report, exc, batches,
                   session, analyzer, now, history>>

(***************************************************************************)
(* response.read ends (lines 88-91): a transport error, or the body, on    *)
(* which _process_image_data runs to its end without another await.  An    *)
(* exception of either is caught at line 90.                               *)
(***************************************************************************)
ReadEnds(i) ==
    /\ pc = "dispatch"
    /\ task[i] = "read"
    /\ MainAwaits => interrupt = "none"
    /\ \/ /\ ended' = [batch |-> i, how |-> "transport_error",
                       printed |-> TRUE]
          /\ evals' = <<>>
          /\ UNCHANGED <<analyzer, history>>
       \/ \E body \in Served(icons, batches[i]) :
             LET r == _process_image_data(
                          [cache |-> cache, results |-> results,
                           seen_entries |-> seen_entries,
                           tileCalls |-> tileCalls, evals |-> <<>>],
                          body, batches[i], args.show_white_hashes, now)
             IN  /\ ended' = [batch |-> i, how |-> r.raised,
                               printed |-> r.raised # "ok"]
                 /\ okDomains' = IF r.raised = "ok"
                                  THEN okDomains \cup Range(batches[i])
                                  ELSE okDomains
                 /\ cache' = r.st.cache
                 /\ results' = r.st.results
                 /\ seen_entries' = r.st.seen_entries
                 /\ tileCalls' = r.st.tileCalls
                 /\ evals' = r.st.evals
    /\ task' = [task EXCEPT ![i] = "done"]
    /\ semaphore' = Release
    /\ UNCHANGED <<pc, args, icons, interrupt, report, exc, batches,
                   session, now>>

(***************************************************************************)
(* main after the last task (lines 235-236): the report is rendered and    *)
(* printed.                                                                *)
(***************************************************************************)
MainReport ==
    /\ pc = "dispatch"
    /\ interrupt = "none"
    /\ \A i \in 1..Len(task) : Ended(i)
    /\ report' = format_results(results, args.output_format)
    /\ pc' = "finally"
    /\ evals' = <<>>
    /\ ended' = NoEnd
    /\ UNCHANGED <<args, icons, interrupt, exc, batches, semaphore, task,
                   session, analyzer, now, history>>

\* _cleanup (lines 45-48), in main's finally (line 239).
MainCleanup ==
    /\ pc = "finally"
    /\ session' = IF session = "open" THEN "closed" ELSE session
    /\ pc' = "exit"
    /\ evals' = <<>>
    /\ ended' = NoEnd
    /\ UNCHANGED <<args, icons, interrupt, report, exc, batches, semaphore,
                   task, analyzer, now, history>>

\* The clock moves on.  Only _process_image_data reads it, so the steps of
\* the clock are taken while some response body is awaited.
Tick ==
    /\ pc = "dispatch"
    /\ \E i \in 1..Len(task) : task[i] = "read"
    /\ now + TickHours <= MaxTicks * TickHours
    /\ now' = now + TickHours
    /\ evals' = <<>>
    /\ ended' = NoEnd
    /\ UNCHANGED <<pc, args, icons, interrupt, report, exc, batches,
                   semaphore, task, session, analyzer, history>>

Next ==
    \/ MainUrl
    \/ MainWordlist
    \/ \E i \in 1..Len(task) : Acquire(i)
    \/ \E i \in 1..Len(task) : GetEnds(i)
    \/ \E i \in 1..Len(task) : ReadEnds(i)
    \/ MainReport
    \/ MainCleanup
    \/ Tick

Spec == Init /\ [][Next]_vars

(***************************************************************************)
(* The run with a user interrupt (lines 241-245).  Under asyncio.run,      *)
(* SIGINT asks for the cancellation of the main task (Interrupt); main is  *)
(* woken with CancelledError at the await it is suspended in, or at the    *)
(* next one it reaches, and unwinds to its finally (MainCancelled).  The   *)
(* tasks of the batches are not cancelled until main has ended, so those   *)
(* that can run still do in between; from then on no step of a task is     *)
(* modelled.                                                               *)
(***************************************************************************)
Interrupt ==
    /\ pc \in {"start", "dispatch"}
    /\ interrupt = "none"
    /\ interrupt' = "pending"
    /\ evals' = <<>>
    /\ ended' = NoEnd
    /\ UNCHANGED <<pc, args, icons, report, exc, batches, semaphore, task,
                   session, analyzer, now, history>>

MainCancelled ==
    /\ pc = "dispatch"
    /\ interrupt = "pending"
    /\ interrupt' = "raised"
    /\ exc' = "CancelledError"
    /\ pc' = "finally"
    /\ evals' = <<>>
    /\ ended' = NoEnd
    /\ UNCHANGED <<args, icons, report, batches, semaphore, task, session,
                   analyzer, now, history>>

InterruptNext ==
    \/ Next
    \/ Interrupt
    \/ MainCancelled

InterruptSpec == Init /\ [][InterruptNext]_vars

(***************************************************************************)
(* The run against a provider that holds one fixed icon for each of the    *)
(* domains of IconDomains: whenever a batch succeeds, such a domain's tile *)
(* is the same.                                                            *)
(***************************************************************************)
IconDomains == {"a.com", "b.com"}

OrderInit ==
    /\ Fresh
    /\ icons \in [IconDomains -> Pixels]
    /\ RunArgs

OrderSpec == OrderInit /\ [][Next]_vars

(***************************************************************************)
(* The packer alone: generate_batches applied to a wordlist drawn from     *)
(* PackDomains and a batch size.                                           *)
(***************************************************************************)
PackInit ==
    /\ Fresh
    /\ icons = AnyIcon
    /\ \E lines \in SeqsUpTo(PackDomains, MaxLines), b \in (-1)..MaxBatch :
          args = [mode |-> "wordlist", url |-> None, wordlist |-> lines,
                  readable |-> TRUE, batch |-> b,
                  threads |-> DEFAULT_THREADS,
                  output_format |-> DEFAULT_OUTPUT_FORMAT,
                  show_white_hashes |-> FALSE]

Pack ==
    /\ pc = "start"
    /\ batches' = generate_batches(args.wordlist, args.batch)
    /\ pc' = "packed"
    /\ evals' = <<>>
    /\ ended' = NoEnd
    /\ UNCHANGED <<args, icons, interrupt, report, exc, semaphore, task,
                   session, analyzer, now, history>>

PackNext == Pack

PackSpec == PackInit /\ [][PackNext]_vars

(***************************************************************************)
(* _process_image_data alone: applied once, on a fresh analyzer, to a      *)
(* batch of up to MaxTileDomains domains and any image of Images.          *)
(***************************************************************************)
ImageInit ==
    /\ Fresh
    /\ icons = AnyIcon
    /\ \E dw \in BOOLEAN :
          args = [mode |-> "url", url |-> None, wordlist |-> <<>>,
                  readable |-> TRUE, batch |-> DEFAULT_BATCH_SIZE,
                  threads |-> DEFAULT_THREADS,
                  output_format |-> DEFAULT_OUTPUT_FORMAT,
                  show_white_hashes |-> dw]

ProcessImage ==
    /\ pc = "start"
    /\ \E n \in 0..MaxTileDomains : \E batch \in [1..n -> {"a.com", "b.com"}] :
       \E body \in Images :
          LET r == _process_image_data(
                       [cache |-> cache, results |-> results,
                        seen_entries |-> seen_entries,
                        tileCalls |-> tileCalls, evals |-> <<>>],
                       body, batch, args.show_white_hashes, now)
          IN  /\ batches' = <<batch>>
              /\ ended' = [batch |-> 1, how |-> r.raised, printed |-> FALSE]
              /\ okDomains' = IF r.raised = "ok"
                               THEN okDomains \cup Range(batch)
                               ELSE okDomains
              /\ cache' = r.st.cache
              /\ results' = r.st.results
              /\ seen_entries' = r.st.seen_entries
              /\ tileCalls' = r.st.tileCalls
              /\ evals' = r.st.evals
    /\ pc' = "processed"
    /\ UNCHANGED <<args, icons, interrupt, report, exc, semaphore, task,
                   session, now>>

ImageNext == ProcessImage

ImageSpec == ImageInit /\ [][ImageNext]_vars

(***************************************************************************)
(* format_results alone: applied, in each output format, to results of up  *)
(* to MaxGroups groups of 1 to MaxGroupDomains domains each, with          *)
(* seen_entries as _update_results leaves it for those groups.             *)
(***************************************************************************)
ReportHashes == {"NULL", "sha:A", "sha:B", "sha:AB"}
ReportDomains(n) == [k \in 1..n |-> "d" \o ToString(k) \o ".com"]
ReportResults ==
    UNION {
        {[g \in 1..n |-> [hash |-> hs[g], count |-> cs[g],
                          domains |-> ReportDomains(cs[g])]] :
            hs \in {f \in [1..n -> ReportHashes] :
                       \A a, b \in 1..n : f[a] = f[b] => a = b},
            cs \in [1..n -> 1..MaxGroupDomains]} :
        n \in 0..MaxGroups}

ReportInit ==
    /\ pc = "start"
    /\ \E output_format \in OutputFormats :
          args = [mode |-> "url", url |-> None, wordlist |-> <<>>,
                  readable |-> TRUE, batch |-> DEFAULT_BATCH_SIZE,
                  threads |-> DEFAULT_THREADS,
                  output_format |-> output_format,
                  show_white_hashes |-> TRUE]
    /\ results \in ReportResults
    /\ seen_entries =
          UNION {{<<results[g].domains[m], results[g].hash>> :
                     m \in 1..Len(results[g].domains)} :
                 g \in 1..Len(results)}
    /\ icons = AnyIcon
    /\ interrupt = "none"
    /\ exc = None
    /\ batches = <<>>
    /\ semaphore = -1
    /\ task = <<>>
    /\ session = "none"
    /\ cache = <<>>
    /\ now = 0
    /\ report = NoReport
    /\ tileCalls = <<>>
    /\ okDomains = {}
    /\ evals = <<>>
    /\ ended = NoEnd

Report ==
    /\ pc = "start"
    /\ report' = format_results(results, args.output_format)
    /\ pc' = "reported"
    /\ UNCHANGED <<args, icons, interrupt, exc, batches, semaphore, task,
                   session, analyzer, now, history, evals, ended>>

ReportNext == Report

ReportSpec == ReportInit /\ [][ReportNext]_vars

(***************************************************************************)
(* The run under fair scheduling: the event loop runs every task that can  *)
(* run, and every request ends (aiohttp's default timeout ends it if       *)
(* nothing else does).                                                     *)
(***************************************************************************)
FairSpec == Spec /\ WF_vars(Next)

(***************************************************************************)
(* Claims about generate_batches, checked under PackSpec.                  *)
(***************************************************************************)
BatchIndexes == 1..Len(batches)

\* C1: every batch returned by generate_batches renders to a request URL
\* (BASE_URL followed by its domains joined with '/') of at most
\* MAX_URL_LENGTH characters.
C1_UrlWithinLimit ==
    pc = "packed" =>
        \A i \in BatchIndexes : Len(RequestUrl(batches[i])) <= MAX_URL_LENGTH

\* C2: every batch returned by generate_batches holds at most batch_size
\* domains, for every batch_size value.
C2_SizeWithinBatchSize ==
    pc = "packed" =>
        \A i \in BatchIndexes : Len(batches[i]) <= args.batch

\* C3: the batches returned by generate_batches, concatenated in order, are
\* exactly the input domains the validator accepts, in input order; a
\* domain the validator refuses or raises on is in no batch.
C3_ConcatIsFilteredInput ==
    pc = "packed" =>
        /\ Concat(batches, 1) =
               SelectSeq(args.wordlist,
                         LAMBDA d : ~get_tld(d).raised
                                    /\ get_tld(d).value \notin {None, ""})
        /\ \A i \in BatchIndexes : \A k \in 1..Len(batches[i]) :
               ~get_tld(batches[i][k]).raised

C3_Witness ==
    /\ pc = "packed"
    /\ Len(batches) >= 2
    /\ Len(Concat(batches, 1)) >= 2
    /\ \E k \in 1..Len(args.wordlist) : get_tld(args.wordlist[k]).raised
    /\ \E k \in 1..Len(args.wordlist) : ~get_tld(args.wordlist[k]).raised

(***************************************************************************)
(* Claims about the dispatch loop, checked under Spec and FairSpec.        *)
(***************************************************************************)
\* C4: in wordlist mode, once main has made the semaphore (asyncio refuses
\* a negative --threads with ValueError), the number of batches whose
\* process_batch call is in flight (semaphore taken and not yet given back)
\* is at most --threads.
C4_InFlightWithinThreads ==
    (args.mode = "wordlist" /\ pc # "start" /\ exc = None) =>
        /\ Cardinality(InFlight) <= args.threads
        /\ semaphore + Cardinality(InFlight) = args.threads

C4_Witness ==
    /\ args.mode = "wordlist"
    /\ args.threads >= 1
    /\ Cardinality(InFlight) = args.threads
    /\ \E i \in 1..Len(task) : task[i] = "waiting"

\* C5: for every list of batches and every concurrency limit the semaphore
\* accepts, the dispatch loop eventually has run process_batch for every
\* batch and main goes on to its end, whichever batches fail.
C5_EveryBatchRunsThenTerminates ==
    (pc = "dispatch" /\ args.mode = "wordlist")
        ~> (pc = "exit" /\ \A i \in 1..Len(task) : task[i] = "done")

\* C6: a step that ends a batch in a transport error, a non-200 status, a
\* decode failure (or a division by zero) leaves results, seen_entries and
\* cache as they were, and process_batch returns normally: the task is
\* done and main has no exception.
C6_FailedBatchStep ==
    ended'.how \in Failures =>
        /\ results' = results
        /\ seen_entries' = seen_entries
        /\ cache' = cache
        /\ exc' = exc
        /\ task'[ended'.batch] = "done"

C6_FailedBatchChangesNothing == [][C6_FailedBatchStep]_vars

C6_Witness ==
    /\ ended.how \in {"transport_error", "bad_status", "decode_error"}
    /\ results # <<>>
    /\ DOMAIN cache # {}
    /\ Len(task) >= 2

(***************************************************************************)
(* Claims about the cache and the aggregation, checked under Spec.         *)
(***************************************************************************)
\* C7: an iteration that finds a cache entry of the domain with the clock
\* strictly before its expiry returns the stored hash (the None marker
\* too), does not call _process_tile and leaves the entry alone; any other
\* iteration calls _process_tile and stores its result with
\* expiry = now + 24 hours.  No other step writes a cache entry.
C7_EvalFollowsCache ==
    \A k \in 1..Len(evals) :
        LET e == evals[k]
            live == e.present /\ e.now < e.before.expires
        IN  IF live
            THEN /\ ~e.computed
                 /\ e.hash = e.before.hash
                 /\ e.after = e.before
            ELSE /\ e.computed
                 /\ e.hash = _process_tile(e.tile, args.show_white_hashes)
                 /\ e.after = [hash |-> e.hash,
                               expires |-> e.now + CACHE_TTL_HOURS]

C7_CacheWrittenOnlyOnMiss ==
    \A d \in DOMAIN cache' :
        (d \notin DOMAIN cache \/ cache'[d] # cache[d]) =>
            \E k \in 1..Len(evals') :
                /\ evals'[k].domain = d
                /\ evals'[k].computed
                /\ evals'[Len(evals')].after = cache'[evals'[Len(evals')].domain]

C7_CacheOrCompute ==
    /\ [](C7_EvalFollowsCache)
    /\ [][C7_CacheWrittenOnlyOnMiss /\ DOMAIN cache \subseteq DOMAIN cache']_vars

C7_Witness ==
    \E k \in 1..Len(evals) :
        /\ evals[k].present
        /\ ~evals[k].computed
        /\ evals[k].hash = None
        /\ evals[k].now + CACHE_TTL_HOURS > evals[k].before.expires

GroupCount(res, h) == IF HasKey(res, h) THEN res[KeyIndex(res, h)].count ELSE 0
GroupDomains(res, h) ==
    IF HasKey(res, h) THEN res[KeyIndex(res, h)].domains ELSE <<>>

UpdateDomains == {"a.com", "b.com"}
UpdateHashes == {None, "", "NULL", "sha:A", "sha:B"}

\* C8: in every reachable state, _update_results(domain, hash) for a pair
\* already in seen_entries, or with a None or empty hash, changes nothing;
\* for a new pair with a non-empty hash it adds the pair, raises that
\* hash's count by one, appends the domain to that group's list and leaves
\* the other groups alone; a second call with the same pair changes
\* nothing more.
C8_UpdateResultsIdempotent ==
    \A d \in UpdateDomains, h \in UpdateHashes :
        LET r == _update_results(results, seen_entries, d, h)
            again == _update_results(r.results, r.seen_entries, d, h)
        IN  /\ again = r
            /\ IF h \in {None, ""} \/ <<d, h>> \in seen_entries
               THEN /\ r.results = results
                    /\ r.seen_entries = seen_entries
               ELSE /\ r.seen_entries = seen_entries \cup {<<d, h>>}
                    /\ GroupCount(r.results, h) = GroupCount(results, h) + 1
                    /\ GroupDomains(r.results, h) =
                          Append(GroupDomains(results, h), d)
                    /\ Len(r.results) =
                          Len(results) + (IF HasKey(results, h) THEN 0 ELSE 1)
                    /\ \A g \in 1..Len(results) :
                          results[g].hash # h => r.results[g] = results[g]

C8_Witness ==
    /\ \E k \in 1..Len(evals) :
          /\ ~evals[k].computed
          /\ Truthy(evals[k].hash)
          /\ <<evals[k].domain, evals[k].hash>> \in seen_entries
          /\ GroupDomains(results, evals[k].hash) = <<evals[k].domain>>
    /\ Len(results) >= 1

IsPrefix(a, b) == Len(a) <= Len(b) /\ SubSeq(b, 1, Len(a)) = a

\* C9: while no cache entry can have expired (the clock is before the
\* first possible expiry), each domain's tile is computed at most once
\* across all batches, however the batches in flight interleave; and no
\* step loses a seen pair, a group, a count, a listed domain or a live
\* cache entry.
C9_NoLostUpdate ==
    /\ seen_entries \subseteq seen_entries'
    /\ Len(results) <= Len(results')
    /\ \A g \in 1..Len(results) :
          /\ results'[g].hash = results[g].hash
          /\ results'[g].count >= results[g].count
          /\ IsPrefix(results[g].domains, results'[g].domains)
    /\ \A d \in DOMAIN cache :
          /\ d \in DOMAIN cache'
          /\ now < cache[d].expires => cache'[d] = cache[d]

C9_TileComputedOnce ==
    now < CACHE_TTL_HOURS => \A d \in DOMAIN tileCalls : tileCalls[d] <= 1

C9_AtomicPerDomain == [](C9_TileComputedOnce) /\ [][C9_NoLostUpdate]_vars

C9_Witness ==
    /\ ended.how = "ok"
    /\ now < CACHE_TTL_HOURS
    /\ \E i \in 1..Len(task) :
          /\ i # ended.batch
          /\ task[i] = "read"
          /\ \E k \in 1..Len(batches[i]) :
                /\ batches[i][k] \in DOMAIN tileCalls
                /\ tileCalls[batches[i][k]] = 1
                /\ \E m \in 1..Len(evals) : evals[m].domain = batches[i][k]

(***************************************************************************)
(* Claims about the tile bands, checked under ImageSpec.                   *)
(***************************************************************************)
\* C10: for every image height h and every number n >= 1 of domains, the n
\* bands [y1, y2) cut by _process_image_data start at 0, follow one
\* another without overlap or gap, and end at h.
C10_BandsCoverHeight ==
    (evals # <<>> /\ \A k \in 1..Len(evals) : evals[k].computed) =>
        /\ Len(evals) = evals[1].n
        /\ evals[1].y1 = 0
        /\ \A k \in 1..(Len(evals) - 1) : evals[k].y2 = evals[k + 1].y1
        /\ evals[Len(evals)].y2 = evals[Len(evals)].h

(***************************************************************************)
(* Claims about the tile classification, checked under ImageSpec.          *)
(***************************************************************************)
GroupsOf(res, d) ==
    {g \in 1..Len(res) :
        \E m \in 1..Len(res[g].domains) : res[g].domains[m] = d}

\* C11: for every tile _process_image_data computes on a fresh analyzer:
\* if all its pixels are opaque white, or its truncated digest is the
\* default-icon prefix 5f70bf18, the result is None and the domain is in no
\* group when show_white_hashes is unset, and "NULL" and the domain is in
\* the group keyed NULL when it is set; for every other tile the result is
\* the truncated digest and the domain is in the group keyed by it.
C11_TileClassified ==
    \A k \in 1..Len(evals) :
        evals[k].computed =>
            LET e == evals[k]
                blank == \A p \in 1..Len(e.tile) : e.tile[p] = "W"
                digest == hexdigest8(tobytes(e.tile, 1))
                noIcon == blank \/ digest = "5f70bf18"
            IN  IF noIcon
                THEN IF args.show_white_hashes
                     THEN /\ e.hash = "NULL"
                          /\ \E g \in GroupsOf(results, e.domain) :
                                results[g].hash = "NULL"
                     ELSE /\ e.hash = None
                          /\ GroupsOf(results, e.domain) = {}
                ELSE /\ e.hash = digest
                     /\ \E g \in GroupsOf(results, e.domain) :
                           results[g].hash = digest

C11_Witness ==
    /\ pc = "processed"
    /\ args.show_white_hashes
    /\ \E k, m \in 1..Len(evals) :
          /\ evals[k].computed /\ evals[k].tile = <<"A", "A">>
          /\ evals[m].computed /\ evals[m].tile = <<"W", "W">>
    /\ Len(results) = 1
    /\ results[1].count = 2

(***************************************************************************)
(* Claims about the groups, checked under Spec.                            *)
(***************************************************************************)
\* C12: in every reachable state each hash keys one group; a group's
\* domain list holds exactly the domains d with (d, hash) in seen_entries,
\* each once, and its count is the length of that list; every seen pair
\* has its group; and domains whose computed tiles are identical and not
\* "no icon" are listed in one and the same group.
C12_GroupsMatchSeen ==
    /\ \A g1, g2 \in 1..Len(results) :
          results[g1].hash = results[g2].hash => g1 = g2
    /\ \A g \in 1..Len(results) :
          LET ds == results[g].domains
          IN  /\ {ds[m] : m \in 1..Len(ds)} =
                    {p[1] : p \in {q \in seen_entries : q[2] = results[g].hash}}
              /\ \A m1, m2 \in 1..Len(ds) : ds[m1] = ds[m2] => m1 = m2
              /\ results[g].count = Len(ds)
    /\ \A p \in seen_entries : \E g \in 1..Len(results) : results[g].hash = p[2]
    /\ \A k, m \in 1..Len(evals) :
          (/\ evals[k].computed /\ evals[m].computed
           /\ evals[k].tile = evals[m].tile
           /\ evals[k].hash \notin {None, "", "NULL"}) =>
              \E g \in 1..Len(results) :
                  g \in GroupsOf(results, evals[k].domain)
                       \cap GroupsOf(results, evals[m].domain)

C12_Witness ==
    /\ Len(results) = 1
    /\ results[1].count = 2
    /\ results[1].hash \notin {None, "", "NULL"}
    /\ \E k, m \in 1..Len(evals) :
          /\ evals[k].domain # evals[m].domain
          /\ evals[k].computed /\ evals[m].computed
          /\ evals[k].tile = evals[m].tile

(***************************************************************************)
(* Claims about the report, checked under ReportSpec.                      *)
(***************************************************************************)
\* C13: for every results and every output format, format_results lists
\* every group once, in non-increasing order of count, and groups of equal
\* count in the order in which their hash was first recorded (their order
\* in results).
C13_SortedStable ==
    pc = "reported" =>
        LET rows == report.rows
            first(h) == CHOOSE g \in 1..Len(results) : results[g].hash = h
        IN  /\ report.format = args.output_format
            /\ Len(rows) = Len(results)
            /\ \A r \in 1..Len(rows) :
                  \E g \in 1..Len(results) :
                      /\ results[g].hash = rows[r].hash
                      /\ results[g].count = rows[r].count
            /\ \A a, b \in 1..Len(rows) :
                  a < b =>
                      /\ rows[a].count >= rows[b].count
                      /\ rows[a].count = rows[b].count =>
                             first(rows[a].hash) < first(rows[b].hash)

C13_Witness ==
    /\ pc = "reported"
    /\ Len(report.rows) = 3
    /\ report.rows[1].hash = results[2].hash
    /\ report.rows[2].hash = results[3].hash
    /\ report.rows[1].count = report.rows[2].count
    /\ report.rows[3].hash = results[1].hash
    /\ report.rows[1].more > 0

(***************************************************************************)
(* Further claims about generate_batches, checked under PackSpec.          *)
(***************************************************************************)
\* C14: generate_batches closes a batch only when it has to: a domain
\* starts a new batch after a non-empty one only if that batch already
\* held batch_size domains or the URL rendered with the domain appended
\* (BASE_URL, the domains, one separator between neighbours) would be
\* longer than MAX_URL_LENGTH.
C14_ClosesOnlyWhenNecessary ==
    pc = "packed" =>
        \A i \in 2..Len(batches) :
            (batches[i - 1] # <<>> /\ batches[i] # <<>>) =>
                \/ Len(batches[i - 1]) >= args.batch
                \/ Len(RequestUrl(Append(batches[i - 1], batches[i][1])))
                       > MAX_URL_LENGTH

\* C15: for every input and every batch_size, no batch returned by
\* generate_batches is empty.
C15_NoEmptyBatch ==
    pc = "packed" => \A i \in BatchIndexes : batches[i] # <<>>

(***************************************************************************)
(* Claims about the two run modes, checked under Spec.                     *)
(***************************************************************************)
Candidates ==
    IF args.mode = "url" THEN Split(args.url, 1, "") ELSE args.wordlist

\* C16: in both modes, every batch whose request process_batch has issued
\* holds only domains that pass is_valid_domain and is one of the batches
\* generate_batches makes of the candidate domains.
C16_RequestsArePackedValid ==
    \A i \in 1..Len(task) :
        task[i] \in {"get", "read", "done"} =>
            /\ \A k \in 1..Len(batches[i]) : is_valid_domain(batches[i][k])
            /\ batches[i] \in Range(generate_batches(Candidates, args.batch))

(***************************************************************************)
(* Claims about the end of a run, checked under InterruptSpec.             *)
(***************************************************************************)
\* C17: however the run ends (normally, on an error of main such as an
\* unreadable wordlist, or on a user interrupt), a session that was opened
\* is closed when the process exits; and once the interrupt has arrived, no
\* step starts the request of a batch or changes results or seen_entries.
C17_SessionClosedAtExit == pc = "exit" => session # "open"

C17_QuietAfterInterrupt ==
    interrupt # "none" =>
        /\ results' = results
        /\ seen_entries' = seen_entries
        /\ \A i \in 1..Len(task') :
              task'[i] = "get" => (i \in 1..Len(task) /\ task[i] = "get")

C17_InterruptStopsRun ==
    [](C17_SessionClosedAtExit) /\ [][C17_QuietAfterInterrupt]_vars

(***************************************************************************)
(* Claims about the log, checked under Spec.                               *)
(***************************************************************************)
\* C18: every batch that ends in a transport error, a non-200 status or a
\* decode failure has printed an error message when its process_batch
\* ends, and main goes on awaiting the other batches without an exception.
C18_FailuresLogged ==
    ended.how \in {"transport_error", "bad_status", "decode_error"} =>
        /\ ended.printed
        /\ exc = None
        /\ pc = "dispatch"

(***************************************************************************)
(* Claims about a domain's groups, checked under Spec.                     *)
(***************************************************************************)
RunNames == RunDomains \cup UNION {Range(Split(u, 1, "")) : u \in UrlInputs}

\* C19: while no cache entry can have expired (the clock is before the
\* first possible expiry), every domain is listed in at most one group,
\* however many batches hold it and whatever tiles they return for it; and
\* a step lists a domain in a further group only by recomputing the hash
\* of a domain whose cache entry has expired, to a hash other than the
\* stored one.
C19_OneGroupPerDomain ==
    now < CACHE_TTL_HOURS =>
        \A d \in RunNames : Cardinality(GroupsOf(results, d)) <= 1

C19_SecondGroupStep ==
    \A d \in RunNames :
        (/\ GroupsOf(results, d) # {}
         /\ GroupsOf(results', d) # GroupsOf(results, d))
            => \E k \in 1..Len(evals') :
                  /\ evals'[k].domain = d
                  /\ evals'[k].present
                  /\ evals'[k].computed
                  /\ evals'[k].now >= evals'[k].before.expires
                  /\ evals'[k].hash # evals'[k].before.hash

C19_OneGroupUntilExpiry ==
    [](C19_OneGroupPerDomain) /\ [][C19_SecondGroupStep]_vars

C19_Witness ==
    \E k \in 1..Len(evals) :
        /\ evals[k].present
        /\ evals[k].computed
        /\ Cardinality(GroupsOf(results, evals[k].domain)) = 2
        /\ Len(task) >= 2

(***************************************************************************)
(* Claims about the completion order, checked under OrderSpec.             *)
(***************************************************************************)
AllEnded ==
    /\ pc \in {"dispatch", "finally", "exit"}
    /\ \A i \in 1..Len(task) : Ended(i)

\* C20: when every batch has ended, no cache entry can have expired and
\* the provider served each domain the same tile in every successful
\* batch, the aggregation is fixed by which batches succeeded and by the
\* domains' tiles alone: seen_entries is the set of (domain, hash of its
\* tile) over the domains of the successful batches with an icon, the
\* groups are keyed by exactly those hashes, and each group's domains (as
\* a set) and count are those of its hash.  The order in which the batches
\* completed does not enter.
C20_FinalAggregationFixed ==
    (AllEnded /\ now < CACHE_TTL_HOURS /\ okDomains \subseteq DOMAIN icons) =>
        LET icon(d) == icons[d]
            blank(d) == icon(d) = "W"
            hashOf(d) == IF blank(d)
                         THEN (IF args.show_white_hashes THEN "NULL" ELSE None)
                         ELSE hexdigest8(icon(d))
            expected == {<<d, hashOf(d)>> :
                            d \in {x \in okDomains : hashOf(x) # None}}
        IN  /\ seen_entries = expected
            /\ {results[g].hash : g \in 1..Len(results)} = {p[2] : p \in expected}
            /\ \A g \in 1..Len(results) :
                  LET members == {p[1] : p \in {q \in expected :
                                                   q[2] = results[g].hash}}
                  IN  /\ Range(results[g].domains) = members
                      /\ results[g].count = Cardinality(members)

C20_Witness ==
    /\ AllEnded
    /\ now < CACHE_TTL_HOURS
    /\ Len(task) = 2
    /\ ended.batch = 1
    /\ ended.how = "ok"
    /\ okDomains = IconDomains
    /\ Len(results) >= 1
    /\ results[1].domains[1] \in Range(batches[2])
    /\ results[1].domains[1] \notin Range(batches[1])

====
